---- MODULE Spec2Model ----
(***************************************************************************)
(* Scheduled-post dispatcher, rate limit tracker and response caches of    *)
(* the twitter-backend server (server.js and its later revision).          *)
(* Times are milliseconds, as Date.now() gives them.                       *)
(***************************************************************************)
EXTENDS Integers, Sequences, FiniteSets, TLC

\* ------------------------------------------------------------------ bounds
\* ScheduledTweet documents ever created in one run of the model
MaxPosts == 2
\* rate limit windows the fast client's clock runs through
MaxWindows == 1
\* times the clock advances between the requests of the API clients
MaxPass == 2
\* cron minutes the clock advances in the dispatcher model
MaxTicks == 2
\* sweep invocations that may be in progress at the same time
MaxRuns == 2
\* accepted upstream posts of one document that are counted
MaxSent == 3
\* sweep invocations in progress at the same time in the long-run model
MaxLiveRuns == 1
\* ScheduledTweet documents created in the long-run model
MaxLivePosts == 1

\* admitted checks up to which the rate limiter's client leaves its rhythm
MaxEarly == 2

\* ------------------------------------------------------- program constants
Minute == 60 * 1000
\* the clock when the model starts: any Date.now() is far above every cooldown
StartTime == 8 * Minute
\* cron '* * * * *' and cron '*/5 * * * *'
DueEvery == Minute
RetryEvery == 5 * Minute
\* a Date that is not set (undefined) / an error that is not set (null)
NoTime == 0 - 1
NoError == "null"
\* req.user of a request without a session
NoUser == "anonymous"
Users == {"u1", "u2"}
\* the users who schedule posts in the dispatcher model
Posters == {"u1"}
Types == {"tweets", "analytics"}
\* CACHE_DURATION of both read handlers of server.js, TWEET_CACHE_DURATION
\* and ANALYTICS_CACHE_DURATION of the later revision
CACHE_DURATION == 30 * 1000
TWEET_CACHE_DURATION == 30 * 1000
ANALYTICS_CACHE_DURATION == 120 * 1000

VARIABLES
  rev,            \* 1: server.js, 2: its later revision
  now,            \* the clock
  docs,           \* the ScheduledTweet collection: _id -> document
  nextId,         \* the next _id the store hands out
  userDocs,       \* the User collection: userId -> document
  twitterClient,  \* module-level client: the user whose tokens it holds
  run,            \* sweep invocations in progress or finished, by slot
  firedDue,       \* the every-minute cron job has fired in this minute
  firedRetry,     \* the every-5-minutes cron job has fired in this minute
  sent,           \* _id -> number of times the upstream API accepted the post
  cancelled,      \* _ids whose cancel request was answered with success
  tracker,        \* rateLimitTracker: type -> userId -> limits
  tweetsCache,    \* timeline cache
  analyticsCache, \* analytics cache
  resp,           \* the response of the last request handled
  quiet,          \* what happened since a due-post sweep last returned
  probe           \* bookkeeping of the environment: the client that drives the
                  \* rate limiter, the time steps taken, what has recovered

vars == <<rev, now, docs, nextId, userDocs, twitterClient, run, firedDue,
          firedRetry, sent, cancelled, tracker, tweetsCache, analyticsCache,
          resp, quiet, probe>>

\* ------------------------------------------------------------------ helpers
\* a set that loses against the entry already stored
PutIfAbsent(f, k, v) ==
  [x \in DOMAIN f \cup {k} |-> IF x \in DOMAIN f THEN f[x] ELSE v]

Put(f, k, v) == [x \in DOMAIN f \cup {k} |-> IF x = k THEN v ELSE f[x]]

Drop(f, k) == [x \in DOMAIN f \ {k} |-> f[x]]

Min(a, b) == IF a < b THEN a ELSE b

\* a / b rounded up
Ceil(a, b) == (a + b - 1) \div b

\* every ordering of a finite set, as sequences
Orderings(S) ==
  {q \in [1..Cardinality(S) -> S] : \A i, j \in DOMAIN q : i # j => q[i] # q[j]}

\* ---------------------------------------------------------- rateLimitTracker
Window == IF rev = 1 THEN 60 * 60 * 1000 ELSE 15 * 60 * 1000

Cooldown(type) ==
  IF rev = 1 THEN (IF type = "tweets" THEN 1000 ELSE 2000)
             ELSE (IF type = "tweets" THEN 60000 ELSE 120000)

Limit(type) ==
  IF rev = 1 THEN (IF type = "tweets" THEN 150 ELSE 300)
             ELSE (IF type = "tweets" THEN 15 ELSE 10)

\* the comparison that decides whether the count leaves room for one more
WithinLimitsLax(count, limit) == count <= limit

WithinLimits(count, limit) == count < limit

\* a window test that takes the window for over one minute early
ExpiredEarly(t, reset) == t >= reset - 60 * 1000

\* now >= userLimits.reset: the window of the entry is over
Expired(t, reset) == t >= reset

\* the limits of a user without an entry
FreshLimits(t) == [count |-> 0, reset |-> t + Window, lastRequest |-> 0]

\* a new window that remembers the last request of the old one
RestartKeepsLast(ul, t) == [ul EXCEPT !.count = 0, !.reset = t + Window]

\* the entry whose window is over starts a new one: count, reset and
\* lastRequest are assigned
Restart(ul, t) ==
  [ul EXCEPT !.count = 0, !.reset = t + Window, !.lastRequest = 0]

\* rateLimitTracker.check(userId, type) at clock t: the decision, and the
\* tracker as the call leaves it
check(tr, userId, type, t) ==
  IF userId = NoUser \/ type \notin Types
  THEN [allowed |-> FALSE, reset |-> t + 2000, remaining |-> 0,
        nextAllowedTime |-> NoTime, remainingTime |-> 0, byCooldown |-> FALSE,
        tracker |-> tr]
  ELSE
    LET stored  == userId \in DOMAIN tr[type]
        ul0     == IF stored THEN tr[type][userId] ELSE FreshLimits(t)
        expired == Expired(t, ul0.reset)
        ul1     == IF expired THEN Restart(ul0, t) ELSE ul0
        \* server.js mutates the stored object in place; the later revision
        \* also stores a fresh one
        tr1     == IF expired /\ (stored \/ rev = 2)
                   THEN [tr EXCEPT ![type] = Put(@, userId, ul1)]
                   ELSE tr
        since   == t - ul1.lastRequest
        within  == WithinLimits(ul1.count, Limit(type))
        ul2     == IF within
                   THEN [ul1 EXCEPT !.count = @ + 1, !.lastRequest = t]
                   ELSE ul1
        tr2     == IF within
                   THEN [tr1 EXCEPT ![type] = Put(@, userId, ul2)]
                   ELSE tr1
    IN IF since < Cooldown(type)
       THEN [allowed |-> FALSE, reset |-> ul1.lastRequest + Cooldown(type),
             remaining |-> Limit(type) - ul1.count,
             nextAllowedTime |->
               IF rev = 1 THEN NoTime ELSE ul1.lastRequest + Cooldown(type),
             remainingTime |-> IF rev = 1 THEN 0 ELSE Cooldown(type) - since,
             byCooldown |-> TRUE,
             tracker |-> tr1]
       ELSE [allowed |-> within, reset |-> ul2.reset,
             remaining |-> Limit(type) - ul2.count,
             nextAllowedTime |->
               IF rev = 1 THEN NoTime
               ELSE IF within THEN t ELSE ul2.lastRequest + Cooldown(type),
             remainingTime |->
               IF rev = 1 \/ within THEN 0 ELSE Cooldown(type),
             byCooldown |-> FALSE,
             tracker |-> tr2]

\* ------------------------------------------------------ ScheduledTweet model
\* a create that stores another status than the schema's default
NewTweetFailed(userId, message, scheduleTime) ==
  [userId |-> userId, message |-> message, scheduleTime |-> scheduleTime,
   status |-> "failed", postedAt |-> NoTime, error |-> NoError]

\* a document as ScheduledTweet.create makes it: status defaults to pending,
\* postedAt and error are not set
NewTweet(userId, message, scheduleTime) ==
  [userId |-> userId, message |-> message, scheduleTime |-> scheduleTime,
   status |-> "pending", postedAt |-> NoTime, error |-> NoError]

\* what a find hands to the caller: the document with its _id, nothing modified
Loaded(id) ==
  [id |-> id, userId |-> docs[id].userId, message |-> docs[id].message,
   scheduleTime |-> docs[id].scheduleTime, status |-> docs[id].status,
   postedAt |-> docs[id].postedAt, error |-> docs[id].error, dirty |-> {}]

\* an assignment that moves the target time along with the path it sets
AssignAndReschedule(doc, path, val) ==
  [doc EXCEPT ![path] = val, !.scheduleTime = doc.scheduleTime + Minute,
              !.dirty = @ \cup {path, "scheduleTime"}]

\* doc.path = val: a path is marked modified only when its value changes
Assign(doc, path, val) ==
  IF doc[path] = val THEN doc
  ELSE [doc EXCEPT ![path] = val, !.dirty = @ \cup {path}]

\* a save that creates the document again when the store no longer holds it
SaveUpsert(coll, doc) ==
  LET old == IF doc.id \in DOMAIN coll THEN coll[doc.id]
             ELSE NewTweet(doc.userId, doc.message, doc.scheduleTime)
  IN Put(coll, doc.id,
         [f \in DOMAIN old |-> IF f \in doc.dirty THEN doc[f] ELSE old[f]])

\* a save that never reaches the store
SaveLost(coll, doc) == coll

\* doc.save() reaching the store: an update of the modified paths of the
\* document with that _id; it matches nothing when the document is gone
Save(coll, doc) ==
  IF doc.id \in DOMAIN coll
  THEN [coll EXCEPT ![doc.id] =
          [f \in DOMAIN @ |-> IF f \in doc.dirty THEN doc[f] ELSE @[f]]]
  ELSE coll

\* a find that selects pending documents whatever status it is asked for
FindPendingOnly(status, t) ==
  {id \in DOMAIN docs :
     docs[id].status = "pending" /\ docs[id].scheduleTime <= t}

\* ScheduledTweet.find({status, scheduleTime: {$lte: t}}): the matching _ids
Find(status, t) ==
  {id \in DOMAIN docs : docs[id].status = status /\ docs[id].scheduleTime <= t}

\* ---------------------------------------------------------------- User model
\* initializeTwitterClient(user): false when it throws
HasTokens(user) == user.accessToken /\ user.accessSecret

\* a client that is made once and then kept, whoever asks next
initializeOnce(u) == IF twitterClient = NoUser THEN u ELSE twitterClient

\* twitterClient = new TwitterApi({... accessToken: user.accessToken ...}):
\* the user whose tokens the module-level client holds from now on
initializeTwitterClient(u) == u

\* the passport strategy's upsert of the user with the tokens of the handshake
Login(u) ==
  /\ u \notin DOMAIN userDocs
  /\ userDocs' = Put(userDocs, u, [accessToken |-> TRUE, accessSecret |-> TRUE])
  /\ quiet' = "no"
  /\ UNCHANGED <<rev, now, docs, nextId, twitterClient, run, firedDue, firedRetry,
                 sent, cancelled, tracker, tweetsCache, analyticsCache, resp,
                 probe>>

\* the User collection is emptied from outside the server (the test setup
\* clears every collection after each test)
UserRemoved(u) ==
  /\ u \in DOMAIN userDocs
  /\ userDocs' = Drop(userDocs, u)
  /\ quiet' = "no"
  /\ UNCHANGED <<rev, now, docs, nextId, twitterClient, run, firedDue, firedRetry,
                 sent, cancelled, tracker, tweetsCache, analyticsCache, resp,
                 probe>>

\* ------------------------------------------------------------------ sweeps
Slots == 1..MaxRuns

IdleRun ==
  [kind |-> "none", pc |-> "idle", now0 |-> NoTime, list |-> <<>>, idx |-> 0]

Free(s) == run[s].pc = "idle"

\* the slot a new invocation takes: the lowest one that is free
FreeSlot(s) == Free(s) /\ \A q \in Slots : q < s => ~Free(q)

Cur(r) == r.list[r.idx]

\* the for-of loop moves on: the next document's User.findOne is issued, or
\* the function returns
NextTweet(r) ==
  IF r.idx < Len(r.list)
  THEN [r EXCEPT !.idx = @ + 1, !.pc = "user"]
  ELSE IdleRun

\* the catch block of the loop body: the due-post sweep marks the document
\* failed, the retry sweep only replaces the error; then save() is issued
Caught(r, message) ==
  LET d1 == IF r.kind = "due" THEN Assign(Cur(r), "status", "failed") ELSE Cur(r)
      d2 == Assign(d1, "error", message)
  IN [r EXCEPT !.list[r.idx] = d2, !.pc = "catchSave"]

\* the store and the upstream API as the sweeps meet them: a call to either
\* can fail, until the day it has recovered for good (probe counts 1 for the
\* store and 2 for the upstream API once they have)
StoreMayFail == probe \in {0, 2}

UpstreamMayFail == probe \in {0, 1}

SweepFrame == <<rev, now, nextId, userDocs, cancelled, tracker, tweetsCache,
                analyticsCache, resp, probe>>

\* bookkeeping of back-to-back due-post sweeps: "first" while a due-post sweep
\* runs that started with no other invocation in progress, "after" once it has
\* returned (its find having returned), "again" while the next due-post sweep
\* runs, "no" as soon as anything else happens
OthersIdle(s) == \A q \in Slots \ {s} : run[q].pc = "idle"

QuietStep(s) ==
  quiet' = IF run[s].kind = "due" /\ OthersIdle(s) /\ quiet \in {"first", "again"}
           THEN (IF run'[s].pc = "idle" THEN "after" ELSE quiet)
           ELSE "no"

\* cron fires checkScheduledTweets: now = new Date(), the find is issued
CronDue(s) ==
  /\ FreeSlot(s)
  /\ now % DueEvery = 0 /\ ~firedDue
  /\ firedDue' = TRUE
  /\ run' = [run EXCEPT ![s] =
       [IdleRun EXCEPT !.kind = "due", !.pc = "find", !.now0 = now]]
  /\ quiet' = IF ~OthersIdle(s) THEN "no"
              ELSE IF quiet = "after" THEN "again" ELSE "first"
  /\ UNCHANGED <<SweepFrame, docs, twitterClient, firedRetry, sent>>

\* cron fires retryFailedTweets: the find is issued with new Date()
CronRetry(s) ==
  /\ FreeSlot(s)
  /\ now % RetryEvery = 0 /\ ~firedRetry
  /\ firedRetry' = TRUE
  /\ run' = [run EXCEPT ![s] =
       [IdleRun EXCEPT !.kind = "retry", !.pc = "find", !.now0 = now]]
  /\ quiet' = "no"
  /\ UNCHANGED <<SweepFrame, docs, twitterClient, firedDue, sent>>

\* the find returns: the documents in some order, or it throws and the outer
\* catch logs the error
FindReturns(s) ==
  /\ run[s].pc = "find"
  /\ \/ /\ \E order \in Orderings(Find(IF run[s].kind = "due" THEN "pending"
                                                             ELSE "failed",
                                       run[s].now0)) :
             run' = [run EXCEPT ![s] =
               NextTweet([@ EXCEPT !.list = [i \in DOMAIN order |-> Loaded(order[i])]])]
        /\ QuietStep(s)
     \/ /\ StoreMayFail
        /\ run' = [run EXCEPT ![s] = IdleRun]
        /\ quiet' = "no"
  /\ UNCHANGED <<SweepFrame, docs, twitterClient, firedDue, firedRetry, sent>>

\* User.findOne returns. With the user: initializeTwitterClient(user) and the
\* tweet call is issued. Without: the due-post sweep throws 'User not found',
\* the retry sweep continues with the next document. The lookup may throw.
UserReturns(s) ==
  /\ run[s].pc = "user"
  /\ LET r == run[s]
         u == Cur(r).userId
     IN \/ /\ u \in DOMAIN userDocs
           /\ IF HasTokens(userDocs[u])
              THEN /\ twitterClient' = initializeTwitterClient(u)
                   /\ run' = [run EXCEPT ![s].pc = "tweet"]
              ELSE /\ run' = [run EXCEPT ![s] = Caught(r, "User tokens not available")]
                   /\ UNCHANGED twitterClient
        \/ /\ u \notin DOMAIN userDocs
           /\ run' = [run EXCEPT ![s] =
                IF r.kind = "due" THEN Caught(r, "User not found")
                ELSE NextTweet(r)]
           /\ UNCHANGED twitterClient
        \/ /\ StoreMayFail
           /\ run' = [run EXCEPT ![s] = Caught(r, "store error")]
           /\ UNCHANGED twitterClient
  /\ UNCHANGED <<SweepFrame, docs, firedDue, firedRetry, sent>>
  /\ QuietStep(s)

\* twitterClient.v2.tweet returns: the post was accepted and the document is
\* marked posted (the retry sweep also clears the error), or the call threw
TweetReturns(s) ==
  /\ run[s].pc = "tweet"
  /\ LET r == run[s]
         d1 == Assign(Cur(r), "status", "posted")
         d2 == Assign(d1, "postedAt", now)
         d3 == IF r.kind = "retry" THEN Assign(d2, "error", NoError) ELSE d2
     IN \/ /\ sent' = [sent EXCEPT ![Cur(r).id] = Min(@ + 1, MaxSent)]
           /\ run' = [run EXCEPT ![s] =
                [r EXCEPT !.list[r.idx] = d3, !.pc = "save"]]
        \/ /\ UpstreamMayFail
           /\ run' = [run EXCEPT ![s] = Caught(r, "upstream error")]
           /\ UNCHANGED sent
  /\ UNCHANGED <<SweepFrame, docs, twitterClient, firedDue, firedRetry>>
  /\ QuietStep(s)

\* tweet.save() of the try block returns: written, or it threw into the catch
SaveReturns(s) ==
  /\ run[s].pc = "save"
  /\ LET r == run[s]
     IN \/ /\ docs' = Save(docs, Cur(r))
           /\ run' = [run EXCEPT ![s] =
                NextTweet([r EXCEPT !.list[r.idx].dirty = {}])]
        \/ /\ StoreMayFail
           /\ run' = [run EXCEPT ![s] = Caught(r, "store error")]
           /\ UNCHANGED docs
  /\ UNCHANGED <<SweepFrame, twitterClient, firedDue, firedRetry, sent>>
  /\ QuietStep(s)

\* tweet.save() of the catch block returns: written, or it threw out of the
\* loop into the outer catch, which ends the function
CatchSaveReturns(s) ==
  /\ run[s].pc = "catchSave"
  /\ LET r == run[s]
     IN \/ /\ docs' = Save(docs, Cur(r))
           /\ run' = [run EXCEPT ![s] =
                NextTweet([r EXCEPT !.list[r.idx].dirty = {}])]
        \/ /\ StoreMayFail
           /\ run' = [run EXCEPT ![s] = IdleRun]
           /\ UNCHANGED docs
  /\ UNCHANGED <<SweepFrame, twitterClient, firedDue, firedRetry, sent>>
  /\ QuietStep(s)

\* one step of an invocation of either sweep
SweepStep(s) ==
  \/ FindReturns(s)
  \/ UserReturns(s)
  \/ TweetReturns(s)
  \/ SaveReturns(s)
  \/ CatchSaveReturns(s)

checkScheduledTweets(s) ==
  \/ CronDue(s)
  \/ run[s].kind = "due" /\ SweepStep(s)

retryFailedTweets(s) ==
  \/ CronRetry(s)
  \/ run[s].kind = "retry" /\ SweepStep(s)

\* ---------------------------------------------------------- request inputs
\* a message: body characters between pad characters of surrounding white space
Msg(body, pad) == [body |-> body, pad |-> pad]

\* message.length and message.trim().length
Length(m) == m.body + m.pad

Trimmed(m) == m.body

\* the scheduleTime of a request body: absent, the number 0, the empty
\* string, a string that is no date, or a date
Sched(kind, t) == [kind |-> kind, t |-> t]

NoSchedule == Sched("absent", 0)

\* a test that takes every request for a scheduled one
TruthyAlways(st) == TRUE

\* if (scheduleTime): 0 and '' are falsy, like undefined
Truthy(st) == st.kind \in {"invalid", "time"}

\* the value was put in the request body
Supplied(st) == st.kind # "absent"

\* the instant a supplied value names, when it names one: new Date(0) is the epoch
Names(st) == st.kind \in {"zero", "time"}

\* ----------------------------------------------------------------- responses
Resp0 ==
  [op |-> "none", code |-> 0, id |-> 0, scheduled |-> FALSE, called |-> FALSE,
   cached |-> FALSE, notice |-> "none", data |-> <<>>]

HandlerFrame == <<rev, now, userDocs, run, firedDue, firedRetry, sent, probe>>

\* a request was handled: the sweeps no longer run back to back undisturbed
Disturbed == quiet' = "no"

\* ------------------------------------------------------------ POST /api/tweet
\* the comparison of the parsed schedule time with new Date()
NotInFutureLax(t, t0) == t < t0

NotInFuture(t, t0) == t <= t0

\* tweet.data.id of an accepted upstream post
TweetId == 1001

\* the handler with user u, body {message: m, scheduleTime: st}; up is what the
\* upstream call does ("ok", "429", "error") and stored whether create succeeds
PostTweet(u, m, st, up, stored) ==
  LET rl == check(tracker, u, "tweets", now)
      R  == [Resp0 EXCEPT !.op = "tweet"]
  IN
  /\ Disturbed
  /\ UNCHANGED <<HandlerFrame, cancelled, tweetsCache, analyticsCache>>
  /\ IF u = NoUser
     THEN /\ resp' = [R EXCEPT !.code = 401]
          /\ UNCHANGED <<tracker, docs, nextId, twitterClient>>
     ELSE
     /\ tracker' = rl.tracker
     /\ IF ~rl.allowed
        THEN /\ resp' = [R EXCEPT !.code = 429]
             /\ UNCHANGED <<docs, nextId, twitterClient>>
        ELSE IF Trimmed(m) = 0 \/ Length(m) > 280
        THEN /\ resp' = [R EXCEPT !.code = 400]
             /\ UNCHANGED <<docs, nextId, twitterClient>>
        ELSE IF Truthy(st)
        THEN IF st.kind = "invalid" \/ NotInFuture(st.t, now)
             THEN /\ resp' = [R EXCEPT !.code = 400]
                  /\ UNCHANGED <<docs, nextId, twitterClient>>
             ELSE IF stored
             THEN /\ nextId <= MaxPosts
                  /\ docs' = Put(docs, nextId, NewTweet(u, Trimmed(m), st.t))
                  /\ nextId' = nextId + 1
                  /\ resp' = [R EXCEPT !.code = 200, !.scheduled = TRUE,
                                       !.id = nextId]
                  /\ UNCHANGED twitterClient
             ELSE /\ resp' = [R EXCEPT !.code = 500]
                  /\ UNCHANGED <<docs, nextId, twitterClient>>
        ELSE \* immediate post: initializeTwitterClient(req.user), then tweet
             /\ twitterClient' = initializeTwitterClient(u)
             /\ resp' = [R EXCEPT !.called = TRUE,
                                  !.id = IF up = "ok" THEN TweetId ELSE 0,
                                  !.code = CASE up = "ok" -> 200
                                             [] up = "429" -> 429
                                             [] OTHER -> 500]
             /\ UNCHANGED <<docs, nextId>>

\* ------------------------------------------ DELETE /api/scheduled-tweets/:id
\* the filter of the handler's findOneAndDelete
CancelFilterAnyStatus(id, u) == id \in DOMAIN docs /\ docs[id].userId = u

\* a filter without the userId
CancelFilterAnyOwner(id, u) ==
  id \in DOMAIN docs /\ docs[id].status = "pending"

CancelFilter(id, u) ==
  id \in DOMAIN docs /\ docs[id].userId = u /\ docs[id].status = "pending"

\* the handler with user u and :id; reached tells whether the store carried
\* out the findOneAndDelete or threw
Cancel(u, id, reached) ==
  LET R == [Resp0 EXCEPT !.op = "cancel", !.id = id]
  IN
  /\ Disturbed
  /\ UNCHANGED <<HandlerFrame, nextId, twitterClient, tracker, tweetsCache,
                 analyticsCache>>
  /\ IF u = NoUser
     THEN /\ resp' = [R EXCEPT !.code = 401]
          /\ UNCHANGED <<docs, cancelled>>
     ELSE IF ~reached
     THEN /\ resp' = [R EXCEPT !.code = 500]
          /\ UNCHANGED <<docs, cancelled>>
     ELSE IF CancelFilter(id, u)
     THEN /\ docs' = Drop(docs, id)
          /\ cancelled' = cancelled \cup {id}
          /\ resp' = [R EXCEPT !.code = 200]
     ELSE /\ resp' = [R EXCEPT !.code = 404]
          /\ UNCHANGED <<docs, cancelled>>

\* ------------------------------------------------ GET /api/scheduled-tweets
\* a find without the userId filter
ListFilterAnyUser(coll, u) == DOMAIN coll

\* the filter of the handler's find: every document of the user, any status
ListFilter(coll, u) == {id \in DOMAIN coll : coll[id].userId = u}

\* .sort({ scheduleTime: 1 }): q lists ids by scheduleTime, smallest first
Ascending(coll, q) ==
  \A i, j \in DOMAIN q :
    i < j => coll[q[i]].scheduleTime <= coll[q[j]].scheduleTime

\* one element of the tweets array of the response
Item(coll, id) ==
  [id |-> id, message |-> coll[id].message,
   scheduleTime |-> coll[id].scheduleTime, status |-> coll[id].status,
   postedAt |-> coll[id].postedAt, error |-> coll[id].error]

\* the arrays the find can give for user u: documents with equal scheduleTime
\* come in an order the store chooses
Listings(coll, u) ==
  {[i \in DOMAIN q |-> Item(coll, q[i])] :
     q \in {o \in Orderings(ListFilter(coll, u)) : Ascending(coll, o)}}

\* the handler with user u; reached tells whether the store carried out the
\* find or threw
ListScheduled(u, reached) ==
  LET R == [Resp0 EXCEPT !.op = "list"]
  IN
  /\ Disturbed
  /\ UNCHANGED <<HandlerFrame, docs, cancelled, nextId, twitterClient, tracker,
                 tweetsCache, analyticsCache>>
  /\ IF u = NoUser
     THEN resp' = [R EXCEPT !.code = 401]
     ELSE IF ~reached
     THEN resp' = [R EXCEPT !.code = 500]
     ELSE \E l \in Listings(docs, u) : resp' = [R EXCEPT !.code = 200, !.data = l]

\* -------------------------------------------------------------------- clock
Tick ==
  /\ now < StartTime + MaxTicks * Minute
  /\ now' = now + Minute
  /\ quiet' = IF \E id \in DOMAIN docs : /\ docs[id].status = "pending"
                                         /\ docs[id].scheduleTime > now
                                         /\ docs[id].scheduleTime <= now'
               THEN "no" ELSE quiet
  /\ firedDue' = FALSE
  /\ firedRetry' = FALSE
  /\ UNCHANGED <<rev, docs, nextId, userDocs, twitterClient, run, sent,
                 cancelled, tracker, tweetsCache, analyticsCache, resp, probe>>

\* --------------------------------------------- the dispatcher and its clients
\* data: null (filled is FALSE), or the array of the last successful fetch,
\* each item named by the user whose timeline it came from
EmptyCache == [filled |-> FALSE, data |-> <<>>, lastFetched |-> 0]

InitCommon ==
  /\ now = StartTime
  /\ docs = <<>>
  /\ nextId = 1
  /\ userDocs = [u \in Users |-> [accessToken |-> TRUE, accessSecret |-> TRUE]]
  /\ twitterClient = NoUser
  /\ run = [s \in Slots |-> IdleRun]
  /\ firedDue = FALSE
  /\ firedRetry = FALSE
  /\ sent = [i \in 1..MaxPosts |-> 0]
  /\ cancelled = {}
  /\ tracker = [t \in Types |-> <<>>]
  /\ tweetsCache = EmptyCache
  /\ analyticsCache = EmptyCache
  /\ resp = Resp0
  /\ quiet = "no"

InitSched == rev = 1 /\ probe = 0 /\ InitCommon

NextSched ==
  \/ Tick
  \/ \E s \in Slots : checkScheduledTweets(s)
  \/ \E s \in Slots : retryFailedTweets(s)
  \/ \E u \in Posters :
       PostTweet(u, Msg(5, 0), Sched("time", now + Minute), "ok", TRUE)
  \/ \E u \in Users, id \in 1..MaxPosts, reached \in BOOLEAN :
       Cancel(u, id, reached)

SpecSched == InitSched /\ [][NextSched]_vars

\* ------------------------------------------------- properties: the dispatcher
\* invocation s returns in this step
Finishes(s) == run[s].pc # "idle" /\ run'[s].pc = "idle"

\* the _ids of the documents invocation record r selected
Selected(r) == {r.list[i].id : i \in DOMAIN r.list}

\* the loop of invocation s is done with its current document in this step
Leaves(s) ==
  /\ run[s].pc \in {"user", "tweet", "save", "catchSave"}
  /\ run'[s].pc = "idle" \/ run'[s].idx # run[s].idx

\* C1: when an invocation of the due-post sweep returns, every document it
\* selected (pending, with scheduleTime <= the sweep's start time) that still
\* exists is posted or failed, whatever the upstream calls and the store
\* writes of the sweep did.
C1_NoDuePostLeftPending ==
  [][\A s \in Slots :
       run[s].kind = "due" /\ Finishes(s) =>
         \A id \in Selected(run[s]) :
           id \in DOMAIN docs' => docs'[id].status \in {"posted", "failed"}]_vars

\* C2: posted is terminal: a document with status posted keeps that status
\* and is never deleted, in every step of every interleaving of sweeps and
\* cancel requests.
C2_PostedIsTerminal ==
  [][\A id \in DOMAIN docs :
       docs[id].status = "posted" =>
         id \in DOMAIN docs' /\ docs'[id].status = "posted"]_vars

\* C3: a post whose cancel request was answered with success is deleted and
\* was never accepted by the upstream API, however the cancel and the sweeps
\* interleave.
C3_CancelledNeverPosted ==
  \A id \in cancelled : id \notin DOMAIN docs /\ sent[id] = 0

\* C4: a cancel request the store carries out deletes the document when it is
\* the caller's and pending, and answers 200; in every other case (posted,
\* failed, not the caller's, no such document) it answers 404 and leaves the
\* collection as it is; and an _id that was handed out and is no longer in
\* the collection never comes back.
C4_CancelOnlyPending ==
  [][/\ \A u \in Users, id \in 1..MaxPosts :
          resp'.op = "cancel" /\ resp'.id = id /\ Cancel(u, id, TRUE) =>
            IF /\ id \in DOMAIN docs
               /\ docs[id].userId = u
               /\ docs[id].status = "pending"
            THEN resp'.code = 200 /\ id \notin DOMAIN docs'
                 /\ docs' = [x \in DOMAIN docs \ {id} |-> docs[x]]
            ELSE resp'.code = 404 /\ docs' = docs
     /\ \A id \in 1..MaxPosts :
          id < nextId /\ id \notin DOMAIN docs => id \notin DOMAIN docs']_vars

\* C4 witness: a cancelled post is cancelled once more, after a sweep had
\* selected it, and is answered 404
C4_Witness ==
  /\ resp.op = "cancel" /\ resp.code = 404
  /\ resp.id \in cancelled /\ resp.id \notin DOMAIN docs
  /\ \E s \in Slots : run[s].pc # "idle" /\ resp.id \in Selected(run[s])

\* C7: within one invocation of either sweep, a failure while one document is
\* processed neither keeps the remaining selected documents from being
\* attempted (when the invocation returns, the loop has reached every selected
\* document) nor touches any document but the current one.
C7_FailureDoesNotStopTheSweep ==
  [][\A s \in Slots :
       /\ Finishes(s) /\ run[s].pc # "find" => run[s].idx = Len(run[s].list)
       /\ SweepStep(s) /\ run[s].pc # "find" =>
            \A id \in DOMAIN docs \ {Cur(run[s]).id} :
              id \in DOMAIN docs' /\ docs'[id] = docs[id]]_vars

\* C8: a due-post sweep that runs right after another one, with nothing
\* between them but the passing of time that makes no post due, writes no
\* document and issues no upstream call; and no find of either sweep ever
\* returns a document whose status is posted.
C8_SecondSweepDoesNothing ==
  [][/\ quiet = "again" /\ quiet' # "no" =>
          /\ docs' = docs
          /\ sent' = sent
          /\ \A s \in Slots : run'[s].pc # "tweet"
     /\ \A s \in Slots :
          run[s].pc = "find" /\ run'[s].pc # "find" =>
            \A i \in DOMAIN run'[s].list :
              docs[run'[s].list[i].id].status # "posted"]_vars

\* C9: the retry sweep reaches every failed post it selected, issues the
\* upstream call for each one whose owner is found with tokens, and when the
\* call succeeded the stored document is posted, has postedAt set and its
\* error cleared once the loop is done with it.
C9_RetryPostsFailedTweets ==
  [][\A s \in Slots : run[s].kind = "retry" =>
       /\ Finishes(s) /\ run[s].pc # "find" => run[s].idx = Len(run[s].list)
       /\ Leaves(s) /\ Cur(run[s]).status = "posted"
            /\ Cur(run[s]).id \in DOMAIN docs' =>
              LET d == docs'[Cur(run[s]).id]
              IN d.status = "posted" /\ d.postedAt # NoTime /\ d.error = NoError]_vars

\* ------------------------------------------- the rate limiter and its client
\* what the client knows: whose checks it issues, when the current window
\* ends (the reset of the check that opened it), how many checks of that
\* window were admitted, the last decision, and the count of the window that
\* closed last
Client0(u, type) ==
  [user |-> u, type |-> type, windowEnd |-> NoTime, admitted |-> 0,
   allowed |-> FALSE, closed |-> NoTime]

\* rateLimitTracker.check(user, type) is called at clock t
Ask(t) ==
  LET d      == check(tracker, probe.user, probe.type, t)
      opened == probe.windowEnd = NoTime \/ t >= probe.windowEnd
      one    == IF d.allowed THEN 1 ELSE 0
  IN
  /\ now' = t
  /\ tracker' = d.tracker
  /\ probe' = [probe EXCEPT
       !.allowed   = d.allowed,
       !.windowEnd = IF ~opened THEN @ ELSE IF d.allowed THEN d.reset ELSE NoTime,
       !.admitted  = IF opened THEN one ELSE @ + one,
       !.closed    = IF opened /\ probe.windowEnd # NoTime
                     THEN probe.admitted ELSE @]
  /\ UNCHANGED <<rev, docs, nextId, userDocs, twitterClient, run, firedDue,
                 firedRetry, sent, cancelled, tweetsCache, analyticsCache,
                 resp, quiet>>

\* the next check, issued as soon as the cooldown of the class has passed
AskAfterCooldown ==
  /\ now + Cooldown(probe.type)
       <= StartTime + MaxWindows * Window + 2 * Cooldown(probe.type)
  /\ Ask(now + Cooldown(probe.type))

\* one more check in the same millisecond as the last one
AskAtOnce == probe.windowEnd # NoTime /\ Ask(now)

InitRate ==
  /\ rev \in {1, 2}
  /\ probe \in {Client0(u, type) : u \in Users, type \in Types}
  /\ InitCommon

NextRate == AskAfterCooldown \/ AskAtOnce

SpecRate == InitRate /\ [][NextRate]_vars

\* a check of this step finds the client's window over
WindowCloses == probe.windowEnd # NoTime /\ now' >= probe.windowEnd

\* C5 as the spec states it: the fast client has exactly N admitted checks in
\* a window, N the limit of the class, in both revisions and both classes.
C5_ExactlyLimitPerWindow ==
  [][WindowCloses => probe'.closed = Limit(probe.type)]_vars

\* C5: the fast client has exactly min(N, ceil(window / cooldown)) admitted
\* checks in a window: N = 150 posts and 300 analytics in server.js and 15
\* posts in the later revision, but 8 analytics in the later revision, whose
\* limit is 10; never more than N; and once N checks of a window were
\* admitted, every further check before its reset time is denied.
C5_AdmittedPerWindow ==
  [][LET N == Limit(probe.type)
     IN /\ WindowCloses =>
             probe'.closed = Min(N, Ceil(Window, Cooldown(probe.type)))
        /\ probe'.admitted <= N
        /\ probe.admitted = N /\ now' < probe.windowEnd => ~probe'.allowed]_vars

\* C5 witness: a window of server.js closed with all 150 posts admitted, after
\* the checks past the 150th were denied, and the next window has opened
C5_Witness ==
  /\ rev = 1 /\ probe.type = "tweets"
  /\ probe.closed = 150
  /\ probe.allowed /\ probe.admitted = 1

\* ------------------------------------------------ the clients of the HTTP API
\* the time that passes between two requests
Steps == {30 * 1000, 2 * Minute, 6 * Minute}

Pass(d) ==
  /\ probe < MaxPass
  /\ now' = now + d
  /\ probe' = probe + 1
  /\ UNCHANGED <<rev, docs, nextId, userDocs, twitterClient, run, firedDue,
                 firedRetry, sent, cancelled, tracker, tweetsCache,
                 analyticsCache, resp, quiet>>

\* req.user of the requests: a logged-in user, or none
Callers == Users \cup {NoUser}

\* the callers of the read endpoints
Readers == {"u1", NoUser}

\* ---------------------------------------------------------- read endpoints
\* what the upstream timeline call gives: tweets, an empty list, a body
\* without a list, a 429, or another error
Upstream == {"data", "empty", "invalid", "429", "error"}

\* the list the handler makes of the upstream answer
Timeline(u, up) == IF up = "data" THEN <<u>> ELSE <<>>

\* tweetsCache.data && Array.isArray(tweetsCache.data)
HasArray(c) == c.filled

\* a cache test that takes a payload past its freshness window for none
HasFreshItems(c) ==
  c.filled /\ Len(c.data) > 0 /\ now - c.lastFetched < CACHE_DURATION

\* analyticsCache.data && analyticsCache.data.length > 0
HasItems(c) == c.filled /\ Len(c.data) > 0

\* an age that takes every cache for fetched at the epoch
CacheAgeSinceEpoch(c) == now

\* now - (cache.lastFetched || 0)
CacheAge(c) == now - c.lastFetched

\* the age test of the later revision's analytics handler on a denied request
NotTooOldAnyAge(age) == age >= 0

NotTooOld(age) == age < ANALYTICS_CACHE_DURATION * 3

\* a fetch that clears the cache when the list it got is empty
RefreshedOrCleared(data) ==
  [filled |-> data # <<>>, data |-> data, lastFetched |-> now]

\* the cache after a successful fetch
Refreshed(data) == [filled |-> TRUE, data |-> data, lastFetched |-> now]

\* responses: the cached payload, a fetched payload, an error status;
\* called tells whether the upstream call was made
\* an answer from the cache that leaves the notice out
FromCacheSilent(op, c, notice, called) ==
  [Resp0 EXCEPT !.op = op, !.code = 200, !.cached = TRUE, !.data = c.data,
                !.called = called]

FromCache(op, c, notice, called) ==
  [Resp0 EXCEPT !.op = op, !.code = 200, !.cached = TRUE, !.notice = notice,
                !.data = c.data, !.called = called]

Fetched(op, data, notice) ==
  [Resp0 EXCEPT !.op = op, !.code = 200, !.notice = notice, !.data = data,
                !.called = TRUE]

Refused(op, code, called) ==
  [Resp0 EXCEPT !.op = op, !.code = code, !.called = called]

ReadFrame == <<rev, now, docs, nextId, userDocs, run, firedDue, firedRetry,
               sent, cancelled, quiet, probe>>

\* GET /api/tweets by u, whose session holds tokens or not (tok), with the
\* upstream call answering up. server.js never asks the rate limiter here; the
\* later revision asks it first and maxes the count out on an upstream 429.
GetTweets(u, tok, up) ==
  LET c      == tweetsCache
      has    == HasArray(c)
      rl     == check(tracker, u, "tweets", now)
      tr1    == IF rev = 2 THEN rl.tracker ELSE tracker
      fresh  == has /\ CacheAge(c) < (IF rev = 1 THEN CACHE_DURATION
                                                 ELSE TWEET_CACHE_DURATION)
      maxed  == [tr1 EXCEPT !["tweets"] =
                   Put(@, u, [count |-> 15,
                              reset |-> ((now + 15 * Minute) \div 1000) * 1000,
                              lastRequest |-> IF u \in DOMAIN @
                                              THEN @[u].lastRequest ELSE now])]
      stale(notice, code, called) ==
        IF has THEN FromCache("tweets", c, notice, called)
        ELSE Refused("tweets", code, called)
  IN
  /\ UNCHANGED <<ReadFrame, analyticsCache>>
  /\ IF u = NoUser
     THEN /\ resp' = Refused("tweets", 401, FALSE)
          /\ UNCHANGED <<tracker, tweetsCache, twitterClient>>
     ELSE IF rev = 2 /\ ~rl.allowed
     THEN /\ resp' = stale("rate", 429, FALSE)
          /\ tracker' = tr1
          /\ UNCHANGED <<tweetsCache, twitterClient>>
     ELSE IF fresh
     THEN /\ resp' = FromCache("tweets", c, "none", FALSE)
          /\ tracker' = tr1
          /\ UNCHANGED <<tweetsCache, twitterClient>>
     ELSE IF ~tok
     THEN /\ resp' = stale("auth", 401, FALSE)
          /\ tracker' = tr1
          /\ UNCHANGED <<tweetsCache, twitterClient>>
     ELSE
     /\ twitterClient' = initializeTwitterClient(u)
     /\ CASE up = "data" \/ (up = "empty" /\ rev = 1) ->
               /\ tweetsCache' = Refreshed(Timeline(u, up))
               /\ resp' = Fetched("tweets", Timeline(u, up), "none")
               /\ tracker' = tr1
          [] up \in {"empty", "invalid"} /\ rev = 2 ->
               /\ resp' = IF has THEN FromCache("tweets", c, "norecent", TRUE)
                          ELSE Fetched("tweets", <<>>, "norecent")
               /\ tracker' = tr1
               /\ UNCHANGED tweetsCache
          [] up = "429" ->
               /\ resp' = stale("upstream429", 429, TRUE)
               /\ tracker' = IF rev = 2 THEN maxed ELSE tr1
               /\ UNCHANGED tweetsCache
          [] OTHER ->
               /\ resp' = stale("error", 500, TRUE)
               /\ tracker' = tr1
               /\ UNCHANGED tweetsCache

\* GET /api/analytics. server.js answers from a fresh cache before it asks the
\* rate limiter; the later revision asks the rate limiter first.
GetAnalytics(u, tok, up) ==
  LET c     == analyticsCache
      has   == HasItems(c)
      rl    == check(tracker, u, "analytics", now)
      fresh == rev = 1 /\ has /\ CacheAge(c) < CACHE_DURATION
      \* the cache test of the catch block
      kept  == IF rev = 1 THEN HasArray(c) ELSE HasItems(c)
  IN
  /\ UNCHANGED <<ReadFrame, tweetsCache>>
  /\ IF u = NoUser
     THEN /\ resp' = Refused("analytics", 401, FALSE)
          /\ UNCHANGED <<tracker, analyticsCache, twitterClient>>
     ELSE IF fresh
     THEN /\ resp' = FromCache("analytics", c, "none", FALSE)
          /\ UNCHANGED <<tracker, analyticsCache, twitterClient>>
     ELSE
     /\ tracker' = rl.tracker
     /\ IF ~rl.allowed
        THEN /\ resp' = IF has /\ (rev = 1 \/ NotTooOld(CacheAge(c)))
                        THEN FromCache("analytics", c, "rate", FALSE)
                        ELSE Refused("analytics", 429, FALSE)
             /\ UNCHANGED <<analyticsCache, twitterClient>>
        ELSE IF ~tok
        THEN /\ resp' = IF has THEN FromCache("analytics", c, "auth", FALSE)
                        ELSE Refused("analytics", 401, FALSE)
             /\ UNCHANGED <<analyticsCache, twitterClient>>
        ELSE
        /\ twitterClient' = initializeTwitterClient(u)
        /\ CASE up = "data" \/ (up = "empty" /\ rev = 1) ->
                  /\ analyticsCache' = Refreshed(Timeline(u, up))
                  /\ resp' = Fetched("analytics", Timeline(u, up), "none")
             [] up \in {"empty", "invalid"} /\ rev = 2 ->
                  /\ resp' = IF has
                             THEN FromCache("analytics", c, "norecent", TRUE)
                             ELSE Fetched("analytics", <<>>, "norecent")
                  /\ UNCHANGED analyticsCache
             [] up = "429" /\ rev = 1 ->
                  /\ resp' = IF kept
                             THEN FromCache("analytics", c, "upstream429", TRUE)
                             ELSE Refused("analytics", 429, TRUE)
                  /\ UNCHANGED analyticsCache
             [] OTHER ->
                  /\ resp' = IF kept THEN FromCache("analytics", c, "error", TRUE)
                             ELSE Refused("analytics", 500, TRUE)
                  /\ UNCHANGED analyticsCache

InitRead == rev \in {1, 2} /\ probe = 0 /\ InitCommon

NextRead ==
  \/ \E d \in Steps : Pass(d)
  \/ \E u \in Readers, tok \in BOOLEAN, up \in Upstream : GetTweets(u, tok, up)
  \/ \E u \in Readers, tok \in BOOLEAN, up \in Upstream : GetAnalytics(u, tok, up)

SpecRead == InitRead /\ [][NextRead]_vars

\* ------------------------------------------- properties: the read endpoints
\* the handler of this step asks the rate limiter for u and is denied
DeniedAnalytics(u) ==
  /\ ~(rev = 1 /\ HasItems(analyticsCache)
               /\ CacheAge(analyticsCache) < CACHE_DURATION)
  /\ ~check(tracker, u, "analytics", now).allowed

DeniedTweets(u) == rev = 2 /\ ~check(tracker, u, "tweets", now).allowed

\* this step is a read request by u
AnalyticsBy(u) ==
  /\ resp'.op = "analytics"
  /\ \E tok \in BOOLEAN, up \in Upstream : GetAnalytics(u, tok, up)

TweetsBy(u) ==
  /\ resp'.op = "tweets"
  /\ \E tok \in BOOLEAN, up \in Upstream : GetTweets(u, tok, up)

Messages == {Msg(0, 0), Msg(0, 1), Msg(5, 0), Msg(280, 1), Msg(281, 0)}

\* the scheduleTime values a client sends at clock t
Schedules(t) ==
  {Sched("absent", 0), Sched("zero", 0), Sched("empty", 0), Sched("invalid", 0)}
    \cup {Sched("time", x) : x \in {t - 30 * 1000, t, t + 30 * 1000}}

UpstreamPost == {"ok", "429", "error"}

InitPost == rev \in {1, 2} /\ probe = 0 /\ InitCommon

NextPost ==
  \/ \E d \in Steps : Pass(d)
  \* the upstream call is made only without a schedule time, the create
  \* only with one
  \/ \E u \in Posters \cup {NoUser}, m \in Messages, st \in Schedules(now),
        up \in UpstreamPost : ~Truthy(st) /\ PostTweet(u, m, st, up, TRUE)
  \/ \E u \in Posters \cup {NoUser}, m \in Messages, st \in Schedules(now),
        stored \in BOOLEAN : Truthy(st) /\ PostTweet(u, m, st, "ok", stored)
  \/ \E u \in Posters \cup {NoUser}, reached \in BOOLEAN : ListScheduled(u, reached)

SpecPost == InitPost /\ [][NextPost]_vars

\* C10: a request of a logged-in user that the rate limiter admits, with a
\* valid message and a supplied scheduleTime naming an instant that is not
\* later than now, is answered 400, creates no document and makes no
\* upstream call.
C10_NotLaterIsRejected ==
  [][\A u \in Users, st \in Schedules(now) :
       /\ resp'.op = "tweet"
       /\ Supplied(st) /\ Names(st) /\ st.t <= now
       /\ check(tracker, u, "tweets", now).allowed
       /\ \E up \in UpstreamPost, stored \in BOOLEAN :
            PostTweet(u, Msg(5, 0), st, up, stored)
       => resp'.code = 400 /\ ~resp'.called /\ docs' = docs]_vars

\* the message passes the handler's two checks
Valid(m) == Trimmed(m) > 0 /\ Length(m) <= 280

\* the request is one of user u with a valid message m and a scheduleTime
\* later than now, and the store carries out the create (what the upstream
\* API would do plays no part on this path)
SchedulesLater(u, m, st) ==
  /\ resp'.op = "tweet"
  /\ Valid(m) /\ st.kind = "time" /\ st.t > now
  /\ PostTweet(u, m, st, "ok", TRUE)

\* the answer is success with scheduled: true and the new _id, no upstream
\* call was made, one pending document of the user was added and every
\* array the list endpoint can now give the user holds it as pending
Scheduled(u, m, st) ==
  /\ resp'.code = 200 /\ resp'.scheduled /\ resp'.id \notin DOMAIN docs
  /\ ~resp'.called /\ twitterClient' = twitterClient
  /\ docs' = Put(docs, resp'.id,
                 [userId |-> u, message |-> Trimmed(m), scheduleTime |-> st.t,
                  status |-> "pending", postedAt |-> NoTime, error |-> NoError])
  /\ \A l \in Listings(docs', u) :
       \E i \in DOMAIN l : l[i].id = resp'.id /\ l[i].status = "pending"

\* C11 as stated: every request of a logged-in user with a valid message and
\* a scheduleTime later than now is answered with success, scheduled: true
\* and a scheduleId, makes no upstream call and creates exactly one pending
\* document, which the list endpoint then returns to that user.
C11_ScheduleAlwaysCreates ==
  [][\A u \in Posters, m \in Messages, st \in Schedules(now) :
       SchedulesLater(u, m, st) => Scheduled(u, m, st)]_vars

\* C11: such a request, when the rate limiter admits it, is answered with
\* success, scheduled: true and a scheduleId, makes no upstream call and
\* creates exactly one pending document, which the list endpoint then
\* returns to that user; when the rate limiter denies it the answer is 429
\* and no document is created.
C11_AdmittedScheduleCreates ==
  [][\A u \in Posters, m \in Messages, st \in Schedules(now) :
       SchedulesLater(u, m, st) =>
         IF check(tracker, u, "tweets", now).allowed
         THEN Scheduled(u, m, st)
         ELSE resp'.code = 429 /\ docs' = docs /\ ~resp'.called]_vars

\* C11 witness: the list endpoint answers with the pending document a
\* request has just created
C11_Witness ==
  /\ resp.op = "list" /\ resp.code = 200
  /\ \E i \in DOMAIN resp.data :
       /\ resp.data[i].status = "pending"
       /\ resp.data[i].scheduleTime > now
       /\ resp.data[i].id \in DOMAIN docs

\* the request is one of user u with a valid message m and no scheduleTime
\* (whether the store would carry out a create plays no part on this path)
PostsNow(u, m, up) ==
  /\ resp'.op = "tweet"
  /\ Valid(m)
  /\ PostTweet(u, m, Sched("absent", 0), up, TRUE)

\* the upstream call was made with the user's client, no document was
\* created, and when the upstream API accepted the post the answer is success
\* with scheduled: false and the upstream tweet id
PostedNow(u, up) ==
  /\ resp'.called /\ twitterClient' = u
  /\ docs' = docs /\ nextId' = nextId
  /\ up = "ok" =>
       resp'.code = 200 /\ ~resp'.scheduled /\ resp'.id = TweetId

\* C12 as stated: every request of a logged-in user with a valid message and
\* no scheduleTime makes the upstream call once, creates no document, and is
\* answered with success, scheduled: false and the tweet id when the
\* upstream API accepts the post.
C12_ImmediateAlwaysCalls ==
  [][\A u \in Posters, m \in Messages, up \in UpstreamPost :
       PostsNow(u, m, up) => PostedNow(u, up)]_vars

\* C12: such a request, when the rate limiter admits it, makes the upstream
\* call once, creates no document, and is answered with success,
\* scheduled: false and the tweet id when the upstream API accepts the post;
\* when the rate limiter denies it the answer is 429 and no upstream call is
\* made.
C12_AdmittedImmediateCalls ==
  [][\A u \in Posters, m \in Messages, up \in UpstreamPost :
       PostsNow(u, m, up) =>
         IF check(tracker, u, "tweets", now).allowed
         THEN PostedNow(u, up)
         ELSE resp'.code = 429 /\ ~resp'.called /\ docs' = docs]_vars

\* C12 witness: an immediate post the upstream API accepted, answered with
\* the tweet id, after an earlier request of the same user
C12_Witness ==
  /\ resp.op = "tweet" /\ resp.code = 200 /\ resp.called
  /\ ~resp.scheduled /\ resp.id = TweetId
  /\ twitterClient \in DOMAIN tracker.tweets
  /\ tracker.tweets[twitterClient].count > 1

\* --------------------------------------- the clients of the list endpoint
\* the number of documents the collection holds at most
MaxListed == 3

\* the documents requests and sweeps leave in the collection: of either user,
\* due or not, pending, posted (postedAt set) or failed (error set)
Leftovers ==
  {[userId |-> u, message |-> 5, scheduleTime |-> t, status |-> st,
    postedAt |-> IF st = "posted" THEN StartTime ELSE NoTime,
    error |-> IF st = "failed" THEN "upstream error" ELSE NoError] :
     u \in Users, t \in {StartTime - Minute, StartTime + Minute},
     st \in {"pending", "posted", "failed"}}

\* the collections: _ids handed out in order, some deleted again
Collections ==
  UNION {[ids -> Leftovers] : ids \in SUBSET (1..MaxListed)}

InitList ==
  /\ rev = 1 /\ probe = 0
  /\ now = StartTime
  /\ docs \in Collections
  /\ nextId = MaxListed + 1
  /\ userDocs = [u \in Users |-> [accessToken |-> TRUE, accessSecret |-> TRUE]]
  /\ twitterClient = NoUser
  /\ run = [s \in Slots |-> IdleRun]
  /\ firedDue = FALSE
  /\ firedRetry = FALSE
  /\ sent = [i \in 1..MaxPosts |-> 0]
  /\ cancelled = {}
  /\ tracker = [t \in Types |-> <<>>]
  /\ tweetsCache = EmptyCache
  /\ analyticsCache = EmptyCache
  /\ resp = Resp0
  /\ quiet = "no"

NextList ==
  \/ \E u \in Callers, reached \in BOOLEAN : ListScheduled(u, reached)
  \/ \E u \in Users, id \in 1..MaxListed : Cancel(u, id, TRUE)

SpecList == InitList /\ [][NextList]_vars

\* C13: a list request of a logged-in user that the store carries out is
\* answered 200 with one element for each document of that user, whatever its
\* status, carrying that document's fields, with no element for a document
\* of another user, the elements in ascending order of scheduleTime.
C13_ListIsTheCallersSorted ==
  [][\A u \in Users :
       resp'.op = "list" /\ ListScheduled(u, TRUE) =>
         LET l == resp'.data
         IN /\ resp'.code = 200
            /\ {l[i].id : i \in DOMAIN l} =
                 {id \in DOMAIN docs : docs[id].userId = u}
            /\ Len(l) = Cardinality({l[i].id : i \in DOMAIN l})
            /\ \A i \in DOMAIN l :
                 /\ l[i].status = docs[l[i].id].status
                 /\ l[i].scheduleTime = docs[l[i].id].scheduleTime
                 /\ l[i].message = docs[l[i].id].message
                 /\ l[i].postedAt = docs[l[i].id].postedAt
                 /\ l[i].error = docs[l[i].id].error
            /\ \A i, j \in DOMAIN l :
                 i < j => l[i].scheduleTime <= l[j].scheduleTime]_vars

\* C13 witness: a listing of two documents in two statuses, the one created
\* later first, while the collection holds a
\* document of another user
C13_Witness ==
  /\ resp.op = "list" /\ resp.code = 200 /\ Len(resp.data) = 2
  /\ resp.data[1].id > resp.data[2].id
  /\ resp.data[1].scheduleTime < resp.data[2].scheduleTime
  /\ resp.data[1].status # resp.data[2].status
  /\ \E id \in DOMAIN docs :
       docs[id].userId # docs[resp.data[1].id].userId

\* ---------------------------------- properties: reads whose upstream call fails
\* the upstream call of this read cannot succeed: the session holds no
\* tokens, or the upstream API answers 429 or another error
Failure(tok, up) == ~tok \/ up \in {"429", "error"}

\* the handler of this step got as far as the upstream call and that failed:
\* the client could not be made, or the call was made and rejected
FailedAtUpstream(tok) ==
  IF tok THEN resp'.called
  ELSE ~resp'.called /\ (resp'.notice = "auth" \/ resp'.code = 401)

\* the answer is a success carrying the payload of cache c
ServedFrom(c) == resp'.code = 200 /\ resp'.cached /\ resp'.data = c.data

\* the answer is an error
ErrorAnswer == resp'.code \in {401, 429, 500} /\ ~resp'.cached

Servable(c, tok) ==
  /\ c.filled
  /\ Len(c.data) > 0 \/ (rev = 1 /\ tok)

Calls(s, id) ==
  /\ run[s].pc # "tweet" /\ run'[s].pc = "tweet"
  /\ Cur(run'[s]).id = id

\* C15: once the upstream API has accepted the post of a document, no
\* invocation of either sweep issues another upstream call for that document,
\* however the invocations interleave and whatever the store writes do.
C15_DeliveredAtMostOnce ==
  [][\A id \in 1..MaxPosts :
       sent[id] > 0 => \A s \in Slots : ~Calls(s, id)]_vars

\* the save of invocation s returns in this step, for a document the store
\* no longer holds
WritesDeleted(s) ==
  /\ run[s].pc \in {"save", "catchSave"}
  /\ Cur(run[s]).id \notin DOMAIN docs
  /\ SweepStep(s)

\* C16: when a pending document is deleted by a cancel request after a sweep
\* selected it and before the sweep's save, the save changes nothing: the
\* document is not in the collection afterwards, the collection is as it
\* was, and no array the list endpoint can give holds the document again.
C16_SaveOfDeletedIsNoOp ==
  [][/\ \A s \in Slots : WritesDeleted(s) => docs' = docs
     /\ \A id \in cancelled :
          /\ id \notin DOMAIN docs'
          /\ \A u \in Users : \A l \in Listings(docs', u) :
               \A i \in DOMAIN l : l[i].id # id]_vars

\* C16 witness: a sweep has saved a document it had marked posted or failed
\* after a cancel request deleted that document, and has moved on
C16_Witness ==
  \E s \in Slots : \E i \in DOMAIN run[s].list :
    /\ run[s].pc # "idle" /\ i < run[s].idx
    /\ run[s].list[i].id \in cancelled
    /\ run[s].list[i].status # "pending"
    /\ run[s].list[i].dirty = {}
    /\ run[s].list[i].id \notin DOMAIN docs

\* C17: when the upstream call for a document fails, the sweep's catch block
\* leaves the document, if it still exists, with status failed and the
\* error's message.
C17_FailureIsRecorded ==
  [][\A s \in Slots :
       /\ run[s].pc = "catchSave"
       /\ Cur(run[s]).error = "upstream error"
       /\ SweepStep(s)
       => LET id == Cur(run[s]).id
          IN id \in DOMAIN docs' =>
               /\ docs'[id].status = "failed"
               /\ docs'[id].error = "upstream error"]_vars

\* C18: at no time are two invocations of the same sweep in progress.
C18_NoOverlap ==
  \A k \in {"due", "retry"} :
    Cardinality({s \in Slots : run[s].pc # "idle" /\ run[s].kind = k}) <= 1

\* ------------------------------------------- the dispatcher in the long run
\* the last minute the clock shows as it is; from there on it is read modulo
\* the period of the retry sweep, which keeps every comparison of a schedule
\* time of a document with the clock as it is
Horizon == StartTime + MaxTicks * Minute

\* a minute passes. node-cron fires at every minute, so the clock does not
\* pass a minute whose sweeps have not been started
TickOn ==
  /\ firedDue
  /\ now % RetryEvery = 0 => firedRetry
  /\ now' = IF now + Minute < Horizon + RetryEvery THEN now + Minute
            ELSE Horizon
  /\ quiet' = IF \E id \in DOMAIN docs : /\ docs[id].status = "pending"
                                         /\ docs[id].scheduleTime > now
                                         /\ docs[id].scheduleTime <= now'
               THEN "no" ELSE quiet
  /\ firedDue' = FALSE
  /\ firedRetry' = FALSE
  /\ UNCHANGED <<rev, docs, nextId, userDocs, twitterClient, run, sent,
                 cancelled, tracker, tweetsCache, analyticsCache, resp, probe>>

\* from now on no call to the store fails
StoreRecovers ==
  /\ StoreMayFail
  /\ probe' = probe + 1
  /\ UNCHANGED <<rev, now, docs, nextId, userDocs, twitterClient, run, firedDue,
                 firedRetry, sent, cancelled, tracker, tweetsCache,
                 analyticsCache, resp, quiet>>

\* from now on the upstream API accepts every post
UpstreamRecovers ==
  /\ UpstreamMayFail
  /\ probe' = probe + 2
  /\ UNCHANGED <<rev, now, docs, nextId, userDocs, twitterClient, run, firedDue,
                 firedRetry, sent, cancelled, tracker, tweetsCache,
                 analyticsCache, resp, quiet>>

InitLive == rev = 1 /\ probe = 0 /\ InitCommon

LiveSlots == 1..MaxLiveRuns

NextLive ==
  \/ TickOn
  \/ \E s \in LiveSlots : checkScheduledTweets(s)
  \/ \E s \in LiveSlots : retryFailedTweets(s)
  \/ \E u \in Posters :
       /\ now < Horizon /\ nextId <= MaxLivePosts
       /\ PostTweet(u, Msg(5, 0), Sched("time", now + Minute), "ok", TRUE)
  \/ StoreRecovers
  \/ UpstreamRecovers

\* timer ticks keep occurring, cron starts the sweeps, and every call a sweep
\* awaits returns; nothing is said about what the calls return
Fairness ==
  /\ WF_vars(TickOn)
  /\ WF_vars(\E s \in LiveSlots : CronDue(s))
  /\ WF_vars(\E s \in LiveSlots : CronRetry(s))
  /\ \A s \in LiveSlots : WF_vars(SweepStep(s))

SpecLive == InitLive /\ [][NextLive]_vars /\ Fairness

\* document id is pending and its schedule time has passed
DuePending(id) ==
  /\ id \in DOMAIN docs
  /\ docs[id].status = "pending" /\ docs[id].scheduleTime <= now

LeftPending(id) == id \notin DOMAIN docs \/ docs[id].status # "pending"

\* C19 as stated: with ticks that keep occurring and calls that return, every
\* pending document whose schedule time has passed eventually is no longer
\* pending.
C19_DueWorkGetsDone ==
  \A id \in 1..MaxPosts : DuePending(id) ~> LeftPending(id)

\* C19: with ticks that keep occurring and calls that return, every pending
\* document whose schedule time has passed eventually is no longer pending,
\* provided the store's calls stop failing at some point.
C19_DueWorkGetsDoneOnceStoreWorks ==
  \A id \in 1..MaxPosts :
    (DuePending(id) /\ ~StoreMayFail) ~> LeftPending(id)

\* C19 witness: a document that stayed pending through a sweep that failed
\* is posted or failed after the store has recovered
C19_Witness ==
  \E id \in DOMAIN docs :
    /\ ~StoreMayFail
    /\ docs[id].status \in {"posted", "failed"}
    /\ docs[id].scheduleTime < now
    /\ now >= Horizon

\* document id is in status failed, or posted
Failed(id) == id \in DOMAIN docs /\ docs[id].status = "failed"

Posted(id) == id \in DOMAIN docs /\ docs[id].status = "posted"

\* the find of a retry sweep returns in this step with every failed document
\* whose schedule time has passed, however often it was tried before
RetriesAll(s) ==
  run[s].kind = "retry" /\ run[s].pc = "find" /\ run'[s].pc = "user"
    => Selected(run'[s]) = Find("failed", run[s].now0)

\* C20 as stated: every retry sweep selects every failed document, with no
\* limit on the attempts, and a failed document eventually is posted once
\* the upstream API accepts every post (the owner's credentials exist).
C20_RetriedUntilPosted ==
  /\ [][\A s \in Slots : RetriesAll(s)]_vars
  /\ \A id \in 1..MaxPosts : (Failed(id) /\ ~UpstreamMayFail) ~> Posted(id)

\* C20: every retry sweep whose find the store carries out selects every
\* failed document, with no limit on the attempts, and a failed document
\* eventually is posted once the upstream API accepts every post and the
\* store's calls no longer fail (the owner's credentials exist).
C20_RetriedUntilPostedOnceStoreWorks ==
  /\ [][\A s \in Slots : RetriesAll(s)]_vars
  /\ \A id \in 1..MaxPosts :
       (Failed(id) /\ ~UpstreamMayFail /\ ~StoreMayFail) ~> Posted(id)

\* C20 witness: after the upstream API and the store have recovered, a retry
\* sweep's upstream call for a failed document was accepted and the sweep is
\* about to store status posted
C20_Witness ==
  \E s \in Slots :
    /\ run[s].kind = "retry" /\ run[s].pc = "save"
    /\ Cur(run[s]).status = "posted"
    /\ Failed(Cur(run[s]).id)
    /\ ~UpstreamMayFail /\ ~StoreMayFail

\* ------------------------------------------------ the retry sweep on its own
\* the failed documents a due-post sweep left behind: of either user, due, with
\* the message of the error that sweep caught
FailedLeft ==
  {[userId |-> u, message |-> 5, scheduleTime |-> t, status |-> "failed",
    postedAt |-> NoTime, error |-> "store error"] :
     u \in Users, t \in {StartTime - Minute, StartTime}}

\* the server at a time cron fires the retry sweep, the store working
InitRetry ==
  /\ rev = 1 /\ probe = 1
  /\ now = 2 * RetryEvery
  /\ docs \in UNION {[ids -> FailedLeft] : ids \in SUBSET (1..MaxPosts)}
  /\ nextId = MaxPosts + 1
  /\ userDocs = [u \in Users |-> [accessToken |-> TRUE, accessSecret |-> TRUE]]
  /\ twitterClient = NoUser
  /\ run = [s \in Slots |-> IdleRun]
  /\ firedDue = FALSE
  /\ firedRetry = FALSE
  /\ sent = [i \in 1..MaxPosts |-> 0]
  /\ cancelled = {}
  /\ tracker = [t \in Types |-> <<>>]
  /\ tweetsCache = EmptyCache
  /\ analyticsCache = EmptyCache
  /\ resp = Resp0
  /\ quiet = "no"

NextRetry ==
  \/ \E s \in Slots : retryFailedTweets(s)
  \/ \E u \in Users : UserRemoved(u)

SpecRetry == InitRetry /\ [][NextRetry]_vars

\* the retry sweep is done in this step with a document it did not get posted
Unsuccessful(s) ==
  /\ run[s].kind = "retry"
  /\ Leaves(s)
  /\ Cur(run[s]).status # "posted"

\* the error of that attempt: the one the catch block was handed, or the one
\* logged when no owner was found
AttemptError(s) ==
  IF run[s].pc = "user" THEN "User not found" ELSE Cur(run[s]).error

\* C21: every unsuccessful attempt of the retry sweep on a failed post, the
\* upstream call having failed or the owner not having been found, leaves the
\* stored status failed and the stored error that of the attempt.
C21_FailedRetryRecordsItsError ==
  [][\A s \in Slots :
       Unsuccessful(s) /\ Cur(run[s]).id \in DOMAIN docs' =>
         LET d == docs'[Cur(run[s]).id]
         IN d.status = "failed" /\ d.error = AttemptError(s)]_vars

\* ------------------------------------------ properties: what a record keeps
\* C22: a document keeps its userId, message and scheduleTime as long as it
\* exists, whatever sweeps and requests do (only status, postedAt and error
\* are ever written), and it leaves the collection only through a cancel
\* request that finds it pending: a posted or failed document is never deleted.
C22_OnlyStatusFieldsChange ==
  [][\A id \in DOMAIN docs :
       IF id \in DOMAIN docs'
       THEN /\ docs'[id].userId = docs[id].userId
            /\ docs'[id].message = docs[id].message
            /\ docs'[id].scheduleTime = docs[id].scheduleTime
       ELSE /\ docs[id].status = "pending"
            /\ resp'.op = "cancel" /\ resp'.code = 200 /\ resp'.id = id]_vars

\* C22 witness: the sweeps have written one document, posted after a failed
\* attempt, and a cancel request has deleted another
C22_Witness ==
  /\ cancelled # {}
  /\ \E id \in DOMAIN docs :
       /\ docs[id].status = "posted" /\ docs[id].postedAt # NoTime
       /\ sent[id] > 0
       /\ docs[id].message = 5
       /\ docs[id].userId \in Posters

\* C23: a cancel request for an existing document by a user who is not its
\* owner, carried out by the store, is answered 404 and changes no document,
\* also when the document is pending.
C23_CancelByOtherUserChangesNothing ==
  [][\A u \in Users : \A id \in DOMAIN docs :
       docs[id].userId # u /\ resp'.op = "cancel" /\ Cancel(u, id, TRUE) =>
         /\ resp'.code = 404
         /\ docs' = docs
         /\ cancelled' = cancelled]_vars

\* C23 witness: the last request was a cancel answered 404 for a document that
\* exists and is pending, which only another user than its owner is told
C23_Witness ==
  /\ resp.op = "cancel" /\ resp.code = 404
  /\ resp.id \in DOMAIN docs
  /\ docs[resp.id].status = "pending"
  /\ \E id \in DOMAIN docs : docs[id].userId # docs[resp.id].userId

\* ------------------------------------- the rate limiter under any one client
\* the requests of one user in one class, as the handlers in flight hand them
\* to rateLimitTracker.check: several in the same millisecond, one cooldown or
\* half a cooldown apart, late in the window, or when the window is over.
\* The bookkeeping holds the times of the admitted checks of the last Window
\* milliseconds (hist), the last decision and the last admitted time.
Gov0(u, type) ==
  [user |-> u, type |-> type, hist |-> <<>>, allowed |-> FALSE,
   last |-> NoTime]

\* the admitted times of hist that are less than Window before t
Recent(hist, t) == SelectSeq(hist, LAMBDA a : a > t - Window)

\* the entry of the client in the tracker
Entry == tracker[probe.type][probe.user]

HasEntry == probe.user \in DOMAIN tracker[probe.type]

\* rateLimitTracker.check(user, type) is called at clock t
GovAsk(t) ==
  LET d == check(tracker, probe.user, probe.type, t)
  IN
  /\ now' = t
  /\ tracker' = d.tracker
  /\ probe' = [probe EXCEPT
       !.allowed = d.allowed,
       !.hist    = IF d.allowed THEN Append(Recent(@, t), t) ELSE Recent(@, t),
       !.last    = IF d.allowed THEN t ELSE @]
  /\ UNCHANGED <<rev, docs, nextId, userDocs, twitterClient, run, firedDue,
                 firedRetry, sent, cancelled, tweetsCache, analyticsCache,
                 resp, quiet>>

\* the end of what is looked at: a few cooldowns into the window after the
\* first MaxWindows ones
GovHorizon == StartTime + MaxWindows * Window + 3 * Cooldown(probe.type)

\* a handler calls check in the same millisecond as the one before
GovAtOnce == HasEntry /\ GovAsk(now)

\* the next check one cooldown later, until the quota is found used up
GovAfterCooldown ==
  /\ now + Cooldown(probe.type) <= GovHorizon
  /\ HasEntry => \/ Entry.count < Limit(probe.type)
                  \/ now >= Entry.reset
                  \/ probe.allowed
  /\ GovAsk(now + Cooldown(probe.type))

\* the client leaves its rhythm of one check per cooldown only while few of
\* its checks have been admitted
Early == Len(probe.hist) <= MaxEarly

\* the next check half a cooldown later
GovAfterHalf ==
  /\ Early
  /\ now + Cooldown(probe.type) \div 2 <= GovHorizon
  /\ GovAsk(now + Cooldown(probe.type) \div 2)

\* the client is back late in the window: half a cooldown plus k cooldowns
\* before the reset, k what is left of the quota but one
GovLate ==
  /\ Early
  /\ HasEntry
  /\ LET left == Limit(probe.type) - Entry.count - 1
         t    == Entry.reset - Cooldown(probe.type) \div 2
                   - left * Cooldown(probe.type)
     IN left >= 0 /\ now < t /\ GovAsk(t)

\* the client is back at the reset time of its window
GovAtReset ==
  /\ HasEntry
  /\ now < Entry.reset /\ Entry.reset <= GovHorizon
  /\ GovAsk(Entry.reset)

InitGov ==
  /\ rev \in {1, 2}
  /\ probe \in {Gov0(u, type) : u \in Posters, type \in Types}
  /\ InitCommon

NextGov ==
  \/ GovAtOnce
  \/ GovAfterCooldown
  \/ GovAfterHalf
  \/ GovLate
  \/ GovAtReset

SpecGov == InitGov /\ [][NextGov]_vars

\* C24: any two admitted checks of a user in a class are at least the cooldown
\* of the class apart, also when a window reset lies between them.
C24_AdmittedAreCooldownApart ==
  [][probe'.allowed /\ probe.last # NoTime =>
       now' - probe.last >= Cooldown(probe.type)]_vars

\* C25: for a user and a class, no interval of Window milliseconds holds more
\* admitted checks than the limit of the class (hist holds the admitted checks
\* of the Window milliseconds that end now).
C25_RollingWindowWithinLimit == Len(probe.hist) <= Limit(probe.type)

\* the admitted checks of the window the client's entry counts
InWindow == SelectSeq(probe.hist, LAMBDA a : a >= Entry.reset - Window)

\* C26: check reads, decides and writes in one piece, however many handlers
\* are in flight: the stored count is the number of checks admitted in the
\* window, never above the limit, the stored lastRequest is the time of the
\* last admitted check, and of two checks in the same millisecond the second
\* is denied when the first was admitted.
C26_CheckIsAtomic ==
  [][/\ probe'.hist # <<>> => probe'.user \in DOMAIN tracker'[probe'.type]
     /\ HasEntry' =>
          /\ Entry'.count = Len(InWindow')
          /\ Entry'.count <= Limit(probe.type)
          /\ Entry'.lastRequest = probe'.last
     /\ now' = now /\ probe.last = now => ~probe'.allowed]_vars

\* C26 witness: a check was admitted and counted, and a check of another
\* handler in the same millisecond was denied
C26_Witness ==
  /\ HasEntry /\ Entry.count > 1
  /\ probe.last = now /\ Entry.lastRequest = now
  /\ ~probe.allowed

\* the times a next check may come at
Soon(type) == {now, now + Cooldown(type) \div 2, now + Cooldown(type)}

\* C27: a check that is denied, for any caller and class and whatever the
\* reason (no user, cooldown, quota), leaves the entries of every user and
\* class as they were.
C27_DeniedCheckChangesNothing ==
  /\ \A u \in Callers, type \in Types : \A t \in Soon(type) :
       LET d == check(tracker, u, type, t)
       IN ~d.allowed => d.tracker = tracker
  /\ HasEntry =>
       LET d == check(tracker, probe.user, probe.type, Entry.reset)
       IN ~d.allowed => d.tracker = tracker

\* C27 witness: the last check came a cooldown after the last admitted one
\* and was denied because the quota of the window is used up, and the entry
\* still holds the count and the time of the last admitted check
C27_Witness ==
  /\ HasEntry /\ ~probe.allowed
  /\ Entry.count = Limit(probe.type)
  /\ now - probe.last >= Cooldown(probe.type)
  /\ now < Entry.reset
  /\ Entry.lastRequest = probe.last

\* the earliest retry time a denying decision carries: reset in server.js,
\* nextAllowedTime in the later revision
RetryAt(d) == IF rev = 1 THEN d.reset ELSE d.nextAllowedTime

\* C28: when a check is denied, a check at the retry time of its decision,
\* with no check admitted in between, is admitted.
C28_RetryTimeIsAccurate ==
  [][LET d == check(tracker, probe.user, probe.type, now')
     IN ~d.allowed =>
          check(tracker', probe.user, probe.type, RetryAt(d)).allowed]_vars

\* -------------------------------------- the handlers that ask the rate limiter
\* the time between requests: a minute, or a minute less than a window
Waits == {Minute, Window - Minute}

\* what the upstream API does with a call of these requests
Answers == {"ok", "429"}

\* the upstream answer as the read handlers see it
Read(up) == IF up = "ok" THEN "data" ELSE up

InitShare == rev \in {1, 2} /\ probe = 0 /\ InitCommon

\* POST /api/tweet without a schedule time and GET /api/tweets by either
\* user, GET /api/analytics by the first, with sessions that hold tokens
NextShare ==
  \/ \E d \in Waits : Pass(d)
  \/ \E u \in Users, up \in Answers :
       PostTweet(u, Msg(5, 0), NoSchedule, up, TRUE)
  \/ \E u \in Users, up \in Answers : GetTweets(u, TRUE, Read(up))
  \/ \E u \in Posters : GetAnalytics(u, TRUE, "data")

SpecShare == InitShare /\ [][NextShare]_vars

\* the operations that are rate limited: posting, timeline read, analytics read
Operations == {"tweet", "tweets", "analytics"}

\* this step is a request of operation op by user u
RequestBy(op, u) ==
  /\ resp'.op = op
  /\ \E up \in Answers :
       CASE op = "tweet" -> PostTweet(u, Msg(5, 0), NoSchedule, up, TRUE)
         [] op = "tweets" -> GetTweets(u, TRUE, Read(up))
         [] OTHER -> GetAnalytics(u, TRUE, "data")

\* what the handler of op would be told for user v at clock t with tracker
\* tr: admitted or not, and how much of the quota is left. GET /api/tweets of
\* server.js does not ask.
Told(op, v, tr, t) ==
  IF op = "tweets" /\ rev = 1
  THEN [allowed |-> TRUE, remaining |-> 0]
  ELSE LET d == check(tr, v, IF op = "analytics" THEN "analytics" ELSE "tweets", t)
       IN [allowed |-> d.allowed, remaining |-> d.remaining]

\* C29: a request of one operation by one user changes what the rate limiter
\* tells no other user, and tells the same user for no other operation:
\* posting, timeline reads and analytics reads have quotas and cooldowns of
\* their own.
C29_QuotaPerUserAndOperation ==
  [][\A op \in Operations, u \in Users :
       RequestBy(op, u) =>
         \A op2 \in Operations, v \in Users :
           op2 # op \/ v # u =>
             Told(op2, v, tracker', now) = Told(op2, v, tracker, now)]_vars

\* C30: the count of a user in a class never goes down while the clock is
\* before the reset time of the entry; it goes down only in a check that
\* finds the clock at or past the reset time, which starts a new window and,
\* being admitted, leaves the count at 1. Entries are never removed.
C30_CountFallsOnlyAtReset ==
  [][\A type \in Types : \A u \in DOMAIN tracker[type] :
       /\ u \in DOMAIN tracker'[type]
       /\ tracker'[type][u].count < tracker[type][u].count =>
            /\ now' >= tracker[type][u].reset
            /\ tracker'[type][u] =
                 [count |-> 1, reset |-> now' + Window, lastRequest |-> now']]_vars

\* C30 witness: in the later revision a window of the user was opened at the
\* start, a timeline read of the user was admitted in it a minute later
\* (count 2 at least), and the check of this moment, at the reset time, has
\* started the count again
C30_Witness ==
  /\ rev = 2
  /\ now = StartTime + Window
  /\ tweetsCache.filled /\ tweetsCache.lastFetched = StartTime + Minute
  /\ \E u \in Users :
       /\ tweetsCache.data = Timeline(u, "data")
       /\ u \in DOMAIN tracker.tweets
       /\ tracker.tweets[u] =
            [count |-> 1, reset |-> now + Window, lastRequest |-> now]

\* ------------------------------------ properties: the sweeps and the limiter
RECURSIVE CallsUpTo(_)
\* the upstream post calls the sweeps have issued for the documents 1..n
CallsUpTo(n) == IF n = 0 THEN 0 ELSE sent[n] + CallsUpTo(n - 1)

\* the checks of the tweets class admitted for user u in the current window
AdmittedChecks(u) ==
  IF u \in DOMAIN tracker.tweets THEN tracker.tweets[u].count ELSE 0

\* C31: every upstream post call is covered by an admitted check of the rate
\* limiter for the owner of the post, the calls of the due-post sweep and of
\* the retry sweep included: within a window the sweeps never issue more
\* calls for the posts of a user than checks were admitted for that user.
C31_EveryPostCallIsChecked ==
  \A u \in Posters : CallsUpTo(MaxPosts) <= AdmittedChecks(u)

\* ------------------------------------------ properties: the caches of reads
\* the freshness window of a read endpoint
FreshWindow(op) ==
  IF op = "tweets" THEN (IF rev = 1 THEN CACHE_DURATION ELSE TWEET_CACHE_DURATION)
  ELSE (IF rev = 1 THEN CACHE_DURATION ELSE ANALYTICS_CACHE_DURATION)

\* cache c holds a payload younger than the freshness window of op
Fresh(op, c) == c.filled /\ now - c.lastFetched < FreshWindow(op)

\* the answer of this step is the payload of cache c, no upstream call made
ServedUncalled(c) ==
  /\ resp'.code = 200 /\ resp'.cached /\ resp'.data = c.data
  /\ ~resp'.called

FreshHit ==
  /\ resp'.op \in {"tweets", "analytics"}
  /\ resp'.code = 200 /\ resp'.cached /\ resp'.notice = "none"
  /\ ~resp'.called

\* C33: a read request answered from a fresh cache entry uses none of the
\* rate limiter's quota: the tracker is as it was before the request.
C33_FreshHitUsesNoQuota == [][FreshHit => tracker' = tracker]_vars

\* cache c of the read endpoint op is written in this step only by a
\* successful fetch of op, which stores the payload it answers with and the
\* time; a filled cache stays filled
WrittenOnlyByFetch(op, c, c2) ==
  /\ c2 # c =>
       /\ resp'.op = op /\ resp'.code = 200
       /\ resp'.called /\ ~resp'.cached
       /\ c2 = [filled |-> TRUE, data |-> resp'.data, lastFetched |-> now']
  /\ c.filled => c2.filled

\* C34: the cached payload and its fetch time change only when an upstream
\* read succeeds; a request that is denied, that fails or that is answered
\* from the cache leaves both caches as they are, and a cache that holds a
\* payload never goes back to holding none.
C34_CacheWrittenOnlyByFetch ==
  [][/\ WrittenOnlyByFetch("tweets", tweetsCache, tweetsCache')
     /\ WrittenOnlyByFetch("analytics", analyticsCache, analyticsCache')]_vars

\* C34 witness: the timeline was fetched, and a later request whose upstream
\* call failed was answered with that payload, past its freshness window and
\* still in the cache
C34_Witness ==
  /\ resp.op = "tweets" /\ resp.cached /\ resp.called
  /\ resp.notice \in {"error", "upstream429"}
  /\ tweetsCache.filled /\ tweetsCache.data = resp.data
  /\ Len(tweetsCache.data) > 0
  /\ now - tweetsCache.lastFetched >= FreshWindow("tweets")

\* the read request of this step on endpoint op, whose cache is c before it,
\* answers 200: a cached payload past its freshness window comes with a
\* notice, and an answer without notice is either the payload just fetched or
\* a cached payload within its freshness window
NoticeUnlessFresh(op, c) ==
  resp'.op = op /\ resp'.code = 200 =>
    /\ resp'.cached /\ now - c.lastFetched >= FreshWindow(op) =>
         resp'.notice # "none"
    /\ resp'.notice = "none" =>
         \/ resp'.called /\ ~resp'.cached
         \/ resp'.cached /\ ~resp'.called /\ Fresh(op, c)

\* a step of a read handler: the clock stands still, as does all else that the
\* read handlers leave alone
ReadRequest == UNCHANGED ReadFrame

\* C35: every read answer that carries a cached payload as old as the
\* freshness window or older (after a denied check, an upstream failure, a
\* missing token or an upstream answer without data) has a notice; the only
\* 200 answers without notice are a fresh fetch and a fresh cache hit.
C35_StaleCacheCarriesNotice ==
  [][ReadRequest =>
       /\ NoticeUnlessFresh("tweets", tweetsCache)
       /\ NoticeUnlessFresh("analytics", analyticsCache)]_vars

\* C35 witness: an analytics request the rate limiter denied was answered with
\* a cached payload older than the freshness window, under a notice
C35_Witness ==
  /\ resp.op = "analytics" /\ resp.code = 200 /\ resp.cached
  /\ resp.notice = "rate" /\ ~resp.called
  /\ resp.data = analyticsCache.data
  /\ now - analyticsCache.lastFetched >= FreshWindow("analytics")

\* every item of the payload was fetched with the tokens of u
FetchedFor(u, data) == \A i \in 1..Len(data) : data[i] = u

\* C36: the payload of a 200 answer to a timeline or analytics request was
\* fetched with the credentials of the user who sent the request; a payload
\* cached by one user's request is never answered to another user.
C36_PayloadIsTheRequestersOwn ==
  [][\A u \in Users :
       (TweetsBy(u) \/ AnalyticsBy(u)) /\ resp'.code = 200 =>
         FetchedFor(u, resp'.data)]_vars

\* -------------------------------------------- the shared client of the sweeps
\* due posts of two owners, left by a server run that was stopped: the owners
\* take turns in the order the posts were made
DueLeft == [i \in 1..MaxPosts |->
              NewTweet(IF i % 2 = 1 THEN "u1" ELSE "u2", 5, StartTime)]

\* the server at a time cron fires the due-post sweep, the store working and
\* the upstream calls failing or not
InitOwner ==
  /\ rev = 1 /\ probe = 1
  /\ now = StartTime
  /\ docs = DueLeft
  /\ nextId = MaxPosts + 1
  /\ userDocs = [u \in Users |-> [accessToken |-> TRUE, accessSecret |-> TRUE]]
  /\ twitterClient = NoUser
  /\ run = [s \in Slots |-> IdleRun]
  /\ firedDue = FALSE
  /\ firedRetry = FALSE
  /\ sent = [i \in 1..MaxPosts |-> 0]
  /\ cancelled = {}
  /\ tracker = [t \in Types |-> <<>>]
  /\ tweetsCache = EmptyCache
  /\ analyticsCache = EmptyCache
  /\ resp = Resp0
  /\ quiet = "no"

\* both sweeps, overlapping, with timeline requests of either user in between
NextOwner ==
  \/ Tick
  \/ \E s \in Slots : checkScheduledTweets(s)
  \/ \E s \in Slots : retryFailedTweets(s)
  \/ \E u \in Users : GetTweets(u, TRUE, "data")

SpecOwner == InitOwner /\ [][NextOwner]_vars

\* invocation s issues the upstream post call of its current document in this
\* step: User.findOne has returned the owner and the client was initialised
IssuesPost(s) == run[s].pc = "user" /\ run'[s].pc = "tweet"

\* C37: the upstream post call a sweep issues for a ScheduledPost is made on a
\* client that holds the tokens of the post's owner, whatever the other
\* invocations and the handlers of other users did to the module-level client
\* while the sweep was suspended.
C37_PostCallUsesOwnersClient ==
  [][\A s \in Slots :
       IssuesPost(s) => twitterClient' = Cur(run[s]).userId]_vars

\* C37 witness: the post call of a sweep is in flight for one owner's
\* document, issued after the client had held the other user's tokens, and a
\* request of the other user has re-initialised the client since
C37_Witness ==
  \E s \in Slots :
    /\ run[s].pc = "tweet"
    /\ twitterClient \in Users \ {Cur(run[s]).userId}
    /\ resp.op = "tweets" /\ resp.called
    /\ tweetsCache.data = <<twitterClient>>

\* the fields of a stored document agree with its status
Consistent(d) ==
  CASE d.status = "pending" -> d.postedAt = NoTime /\ d.error = NoError
    [] d.status = "posted"  -> d.postedAt # NoTime /\ d.error = NoError
    [] d.status = "failed"  -> d.postedAt = NoTime /\ d.error # NoError
    [] OTHER -> FALSE

\* C38: in every reachable state each stored ScheduledPost has the fields its
\* status stands for: pending without postedAt and error, posted with
\* postedAt and without error, failed with error and without postedAt.
C38_FieldsAgreeWithStatus == \A id \in DOMAIN docs : Consistent(docs[id])

\* POST /api/tweet is answered 400 in this step: the message or the schedule
\* time did not pass validation
Rejected400 ==
  /\ resp'.op = "tweet" /\ resp'.code = 400
  /\ \E u \in Users, m \in Messages, st \in Schedules(now) :
       PostTweet(u, m, st, "ok", TRUE)

\* C39: a POST /api/tweet that is rejected with a 400 validation error leaves
\* the rate limiter as it was: no request is counted against the user's
\* quota and no cooldown is started.
C39_RejectedPostUsesNoQuota == [][Rejected400 => tracker' = tracker]_vars

====
